---- MODULE Spec2Model ----
(***************************************************************************)
(* A model of the arbitrage bot: the RiskManager (risk_manager.py), the    *)
(* ArbitrageEngine's opportunity scan, two-leg trade execution and price   *)
(* monitor (arbitrage_engine.py) and the venue calls, the detector and the *)
(* ticker aggregation of the ExchangeManager (exchange_manager.py).        *)
(*                                                                         *)
(* Units.  Prices are integers in 1/1000 of a dollar, order amounts are    *)
(* whole dollars, so amount * price and every profit, fee and loss is an   *)
(* integer number of 1/1000 dollar ("milli-dollars").  A percentage or a   *)
(* drawdown is an exact fraction [num, den]; the floating-point rounding   *)
(* of the Python code is not modelled.  The wall clock is `now` in         *)
(* milliseconds (time.time() * 1000) and `today` as a day number           *)
(* (datetime.now().date()); the clock advances while the scan loop sleeps, *)
(* the code between two sleeps takes no time.                              *)
(***************************************************************************)
EXTENDS Integers, Sequences, FiniteSets, TLC

\* -------------------------------------------------------------------------
\* Bounds of the model
\* -------------------------------------------------------------------------
\* trade executions the scan loop may start
MaxExecs == 2
\* scan cycles of _check_arbitrage_opportunities
MaxCycles == 1
\* trading pairs one scan cycle goes through (config.trading_pairs has 12)
NumPairs == 2
\* last day number the calendar reaches
MaxDay == 1
\* how far past max_concurrent_trades the callers of add_active_trade may go
MaxOvershoot == 1
\* record_trade calls per day made by the callers of the RiskManager
MaxDailyTrades == 1
\* the add_active_trade calls of the daily-loss ledger's callers
MaxLedgerActive == 1
\* the small available balances tried, in cents: 0 .. MaxSizeBalance
MaxSizeBalance == 40
\* the calculate_position_size calls made with one balance
MaxSizeCalls == 2
\* the active trades and the recorded trades of the record_trade callers
MaxRecActive == 3
MaxRecTrades == 2
\* the trades whose statistics are counted next to the stats rollup
MaxStatTrades == 3
\* the completed trades stored before the advisory gate is asked
MaxLogged == 4
\* the start requests the dashboard receives
MaxStarts == 3

\* -------------------------------------------------------------------------
\* Program constants (config.py, risk_manager.py)
\* -------------------------------------------------------------------------
\* config.max_concurrent_trades
MaxConcurrentTrades == 5
\* config.max_daily_loss, 100.0 USD in milli-dollars
MaxDailyLoss == 100000
\* config.arbitrage.execution_delay, 0.1 s in milliseconds
ExecutionDelayMs == 100
\* config.arbitrage_check_interval, 5.0 s in milliseconds
CheckIntervalMs == 5000
\* config.arbitrage.max_position_size, 1000.0 USD in cents
MaxPositionCents == 100000
\* RiskManager._get_available_balance, 10000.0 USD in cents
AvailableBalanceCents == 1000000

\* Python's None, where the model needs it among integers
None == -1

Min(a, b) == IF a <= b THEN a ELSE b
Max(a, b) == IF a >= b THEN a ELSE b
Abs(a) == IF a < 0 THEN -a ELSE a

RECURSIVE GCD(_, _)
GCD(a, b) == IF b = 0 THEN a ELSE GCD(b, a % b)

\* exact fractions num/den with den > 0, kept in lowest terms
Frac(n, d) == LET g == GCD(Abs(n), d) IN [num |-> n \div g, den |-> d \div g]
FracLT(x, y) == x.num * y.den < y.num * x.den
FracGE(x, y) == ~FracLT(x, y)
FracMax(x, y) == IF FracGE(x, y) THEN x ELSE y

\* config.arbitrage.min_profit_threshold * 100 = 0.1 (percent)
MinProfitPct == Frac(1, 10)
\* the "suspiciously high spread" ceiling of can_execute_trade, 5.0 percent
MaxSpreadPct == Frac(5, 1)
\* the drawdown limit of can_execute_trade, 0.1
DrawdownLimit == Frac(1, 10)

VARIABLES
    \* RiskManager fields
    daily_loss, daily_trades, rm_active_trades, max_drawdown, peak_balance,
    current_balance, last_reset,
    \* the last RiskManager call: its name, its argument and what it returned
    ret,
    \* wall clock
    now, today,
    \* ArbitrageEngine fields and the scan loop's position
    running, daily_stats, pc, symbols_left, opportunities, opportunity, cur,
    nexec, ncycles,
    \* opportunities that passed the risk check and whose trade id the engine
    \* has not (yet) registered with add_active_trade
    unregistered,
    \* the orders of the current trade at the venues
    orders,
    \* NotificationManager and DatabaseManager effects
    notifications, db_trades,
    \* one find_arbitrage_opportunities call: the tickers the venues gave
    \* and the list it returned
    det_tickers, det_out,
    \* the price monitor task (_monitor_prices) and its get_all_tickers call:
    \* the task's position, the trading pairs left in its for loop, the
    \* results of the per-venue fetch tasks, the map the call built, how the
    \* call ended, the venues whose quote add_exchange_price stored and the
    \* venue at which it raised
    mon_pc, mon_symbols_left, results, tickers, agg_status, price_rows,
    db_failed_at,
    \* calculate_position_size: the balance _get_available_balance returns
    \* and the sizes the calls made with it returned
    size_balance, size_out,
    \* the trade_info of the last record_trade call, its profit and trade id,
    \* and the date of the call
    rec_call,
    \* the position of each of the four periodic tasks start() creates
    task_pc,
    \* the keys _update_daily_stats adds to daily_stats (win_rate,
    \* average_profit, net_profit) and what the last get_performance_summary
    \* call returned
    derived_stats, summary,
    \* the profits of the completed trades add_trade stored, oldest first, and
    \* the last should_skip_opportunity call: its argument, the completed
    \* trades at the time of the call and its result
    trade_log, skip_ret,
    \* the dashboard's start and stop requests: the engine.start() tasks
    \* created and not yet run, and the position of the scan loop of each
    \* engine.start() that ran
    pending_starts, scan_loops,
    \* the bot of main.py: ForexArbitrageBot.running and the signals its
    \* handler has handled
    bot_running, signals,
    \* what the _should_execute_opportunity call that let the opportunity at
    \* hand through read at its revalidation: the two balances, the buy
    \* venue's current ask and the sell venue's current bid
    reval

riskVars == <<daily_loss, daily_trades, rm_active_trades, max_drawdown,
              peak_balance, current_balance, last_reset>>
clockVars == <<now, today>>
engineVars == <<running, daily_stats, pc, symbols_left, opportunities,
                opportunity, cur, nexec, ncycles, unregistered>>
outVars == <<orders, notifications, db_trades>>
detVars == <<det_tickers, det_out>>
monVars == <<mon_pc, mon_symbols_left, results, tickers, agg_status, price_rows,
             db_failed_at>>
sizeVars == <<size_balance, size_out>>
recVars == <<rec_call>>
taskVars == <<task_pc>>
statVars == <<derived_stats, summary>>
skipVars == <<trade_log, skip_ret>>
botVars == <<bot_running, signals>>
lifeVars == <<pending_starts, scan_loops, botVars>>
gateVars == <<reval>>
auxVars == <<sizeVars, recVars, taskVars, statVars, skipVars, lifeVars,
            gateVars>>
vars == <<riskVars, ret, clockVars, engineVars, outVars, detVars, monVars,
          auxVars>>

\* -------------------------------------------------------------------------
\* RiskManager (risk_manager.py)
\* -------------------------------------------------------------------------

\* the percentages the callers try: 0.05, 0.1, 0.2, 5, 5.01 percent
TestPcts == {Frac(5, 100), Frac(1, 10), Frac(2, 10), Frac(5, 1), Frac(501, 100)}

\* (as ResetDailyLoss, with the counters also reset on the date of the last
\* reset)
ResetDailyLossSameDay == IF today >= last_reset THEN 0 ELSE daily_loss

\* _reset_daily_counters: the daily loss after it ran
ResetDailyLoss == IF today > last_reset THEN 0 ELSE daily_loss

\* (as CanExecuteTrade, with the limit compared by > instead of >=)
CanExecuteTradeWrongLimit(pct) ==
    /\ ~(ResetDailyLoss >= MaxDailyLoss)
    /\ ~(Len(rm_active_trades) > MaxConcurrentTrades)
    /\ ~FracGE(max_drawdown, DrawdownLimit)
    /\ ~FracLT(pct, MinProfitPct)
    /\ ~FracLT(MaxSpreadPct, pct)

\* (as CanExecuteTrade, with a spread of exactly 5 percent refused)
CanExecuteTradeCeilingExclusive(pct) ==
    /\ ~(ResetDailyLoss >= MaxDailyLoss)
    /\ ~(Len(rm_active_trades) >= MaxConcurrentTrades)
    /\ ~FracGE(max_drawdown, DrawdownLimit)
    /\ ~FracLT(pct, MinProfitPct)
    /\ ~FracGE(pct, MaxSpreadPct)

\* (as CanExecuteTrade, without the daily-loss check)
CanExecuteTradeNoDailyLoss(pct) ==
    /\ ~(Len(rm_active_trades) >= MaxConcurrentTrades)
    /\ ~FracGE(max_drawdown, DrawdownLimit)
    /\ ~FracLT(pct, MinProfitPct)
    /\ ~FracLT(MaxSpreadPct, pct)

\* can_execute_trade's checks, in the order of the code, after the reset
CanExecuteTrade(pct) ==
    /\ ~(ResetDailyLoss >= MaxDailyLoss)
    /\ ~(Len(rm_active_trades) >= MaxConcurrentTrades)
    /\ ~FracGE(max_drawdown, DrawdownLimit)
    /\ ~FracLT(pct, MinProfitPct)
    /\ ~FracLT(MaxSpreadPct, pct)

\* the state change of one can_execute_trade call: the daily reset and the
\* recorded result
RiskCheck(pct) ==
    /\ daily_loss' = ResetDailyLoss
    /\ daily_trades' = IF today > last_reset THEN 0 ELSE daily_trades
    /\ last_reset' = IF today > last_reset THEN today ELSE last_reset
    /\ ret' = [op |-> "can_execute_trade", pct |-> pct,
               result |-> CanExecuteTrade(pct)]
    /\ UNCHANGED <<rm_active_trades, max_drawdown, peak_balance, current_balance>>

\* a caller runs can_execute_trade(opportunity)
CallCanExecuteTrade ==
    \E pct \in TestPcts :
        /\ RiskCheck(pct)
        /\ UNCHANGED <<clockVars, engineVars, outVars>>
        /\ UNCHANGED <<detVars, monVars, auxVars>>

\* add_active_trade(trade_info): appends, whatever the length
AddActiveTrade(trade_id) ==
    /\ rm_active_trades' = Append(rm_active_trades, [trade_id |-> trade_id])
    /\ ret' = [op |-> "add_active_trade", pct |-> Frac(0, 1), result |-> FALSE]
    /\ UNCHANGED <<daily_loss, daily_trades, max_drawdown, peak_balance,
                   current_balance, last_reset>>

\* the trade ids the callers pass: none, or the id "arb_0"
ApiTradeIds == {None, 0}

CallAddActiveTrade ==
    \E id \in ApiTradeIds :
        /\ Len(rm_active_trades) < MaxConcurrentTrades + MaxOvershoot
        /\ AddActiveTrade(id)
        /\ UNCHANGED <<clockVars, engineVars, outVars>>
        /\ UNCHANGED <<detVars, monVars, auxVars>>

\* the list without the entries of one trade id (record_trade, line 96)
RECURSIVE WithoutTrade(_, _)
WithoutTrade(s, id) ==
    IF s = <<>> THEN <<>>
    ELSE IF Head(s).trade_id = id THEN WithoutTrade(Tail(s), id)
         ELSE <<Head(s)>> \o WithoutTrade(Tail(s), id)

\* (as RecordTrade, with max_drawdown set to the drawdown of this loss)
RecordTradeCurrentDrawdown(profit, trade_id) ==
    /\ daily_trades' = daily_trades + 1
    /\ IF profit > 0
       THEN /\ current_balance' = current_balance + profit
            /\ peak_balance' = Max(peak_balance, current_balance + profit)
            /\ UNCHANGED <<daily_loss, max_drawdown>>
       ELSE /\ daily_loss' = daily_loss + Abs(profit)
            /\ current_balance' = current_balance - Abs(profit)
            /\ max_drawdown' =
                  IF peak_balance > 0
                  THEN Frac(peak_balance - (current_balance - Abs(profit)),
                            peak_balance)
                  ELSE max_drawdown
            /\ UNCHANGED peak_balance
    /\ rm_active_trades' = IF trade_id # None
                           THEN WithoutTrade(rm_active_trades, trade_id)
                           ELSE rm_active_trades
    /\ ret' = [op |-> "record_trade", pct |-> Frac(0, 1), result |-> FALSE]
    /\ UNCHANGED last_reset

\* (as RecordTrade, with the whole active list dropped)
RecordTradeClearsActive(profit, trade_id) ==
    /\ daily_trades' = daily_trades + 1
    /\ IF profit > 0
       THEN /\ current_balance' = current_balance + profit
            /\ peak_balance' = Max(peak_balance, current_balance + profit)
            /\ UNCHANGED <<daily_loss, max_drawdown>>
       ELSE /\ daily_loss' = daily_loss + Abs(profit)
            /\ current_balance' = current_balance - Abs(profit)
            /\ max_drawdown' =
                  IF peak_balance > 0
                  THEN FracMax(max_drawdown,
                               Frac(peak_balance - (current_balance - Abs(profit)),
                                    peak_balance))
                  ELSE max_drawdown
            /\ UNCHANGED peak_balance
    /\ rm_active_trades' = IF trade_id # None THEN <<>> ELSE rm_active_trades
    /\ ret' = [op |-> "record_trade", pct |-> Frac(0, 1), result |-> FALSE]
    /\ UNCHANGED last_reset

\* record_trade(trade_info)
RecordTrade(profit, trade_id) ==
    /\ daily_trades' = daily_trades + 1
    /\ IF profit > 0
       THEN /\ current_balance' = current_balance + profit
            /\ peak_balance' = Max(peak_balance, current_balance + profit)
            /\ UNCHANGED <<daily_loss, max_drawdown>>
       ELSE /\ daily_loss' = daily_loss + Abs(profit)
            /\ current_balance' = current_balance - Abs(profit)
            /\ max_drawdown' =
                  IF peak_balance > 0
                  THEN FracMax(max_drawdown,
                               Frac(peak_balance - (current_balance - Abs(profit)),
                                    peak_balance))
                  ELSE max_drawdown
            /\ UNCHANGED peak_balance
    \* "if trade_id:": with no trade id nothing is removed
    /\ rm_active_trades' = IF trade_id # None
                           THEN WithoutTrade(rm_active_trades, trade_id)
                           ELSE rm_active_trades
    /\ ret' = [op |-> "record_trade", pct |-> Frac(0, 1), result |-> FALSE]
    /\ UNCHANGED last_reset

\* the profits the callers record: -120, -5 and +40 dollars
TestProfits == {-120000, -5000, 40000}

CallRecordTrade ==
    \E profit \in TestProfits, id \in ApiTradeIds :
        /\ daily_trades < MaxDailyTrades
        /\ RecordTrade(profit, id)
        /\ UNCHANGED <<clockVars, engineVars, outVars>>
        /\ UNCHANGED <<detVars, monVars, auxVars>>

\* the trades the record_trade callers pass: a loss of 120 or 5 dollars,
\* no profit, a profit of 40 dollars; no trade id, or the ids "arb_0", "arb_1"
RecProfits == TestProfits \cup {0}
RecTradeIds == {None, 0, 1}

\* a caller runs record_trade(trade_info); the trade_info is kept
RecordCall ==
    \E profit \in RecProfits, id \in RecTradeIds :
        /\ daily_trades < MaxRecTrades
        /\ RecordTrade(profit, id)
        /\ rec_call' = [profit |-> profit, trade_id |-> id, day |-> today]
        /\ UNCHANGED <<clockVars, engineVars, outVars, detVars, monVars,
                       sizeVars, taskVars, statVars, skipVars, lifeVars, gateVars>>

\* a caller registers one of these trades
RecAddActiveTrade ==
    \E id \in RecTradeIds :
        /\ Len(rm_active_trades) < MaxRecActive
        /\ AddActiveTrade(id)
        /\ UNCHANGED <<clockVars, engineVars, outVars, detVars, monVars,
                       auxVars>>

\* the calendar date advances
NewDay ==
    /\ today < MaxDay
    /\ today' = today + 1
    /\ UNCHANGED <<riskVars, ret, now, engineVars, outVars>>
    /\ UNCHANGED <<detVars, monVars, auxVars>>

\* the local calendar date is set back (datetime.now() is the wall clock)
DateBack ==
    /\ today > 0
    /\ today' = today - 1
    /\ UNCHANGED <<riskVars, ret, now, engineVars, outVars>>
    /\ UNCHANGED <<detVars, monVars, auxVars>>

\* (as UpdateBalance, with the peak set to the new balance)
UpdateBalanceSetsPeak(new_balance) ==
    /\ current_balance' = new_balance
    /\ peak_balance' = new_balance
    /\ ret' = [op |-> "update_balance", pct |-> Frac(0, 1), result |-> FALSE]
    /\ UNCHANGED <<daily_loss, daily_trades, rm_active_trades, max_drawdown,
                   last_reset>>

\* update_balance(new_balance)
UpdateBalance(new_balance) ==
    /\ current_balance' = new_balance
    /\ peak_balance' = Max(peak_balance, new_balance)
    /\ ret' = [op |-> "update_balance", pct |-> Frac(0, 1), result |-> FALSE]
    /\ UNCHANGED <<daily_loss, daily_trades, rm_active_trades, max_drawdown,
                   last_reset>>

TestBalances == {100000}

CallUpdateBalance ==
    \E b \in TestBalances :
        /\ UpdateBalance(b)
        /\ UNCHANGED <<clockVars, engineVars, outVars>>
        /\ UNCHANGED <<detVars, monVars, auxVars>>

\* calculate_risk_reward_ratio: profit_percentage / 2.0
CalculateRiskRewardRatio(pct) == Frac(pct.num, pct.den * 2)
\* the minimum risk/reward ratio of should_skip_opportunity, 1.5
MinRiskReward == Frac(3, 2)

\* _get_recent_trades(count): the empty list, whatever was stored
GetRecentTrades(count) == <<>>

\* the last three entries of a list of at least three ("[-3:]")
LastThree(list) == SubSeq(list, Len(list) - 2, Len(list))

\* should_skip_opportunity(opportunity)
ShouldSkipOpportunity(pct) ==
    LET recent_trades == GetRecentTrades(10)
    IN  \/ FracLT(CalculateRiskRewardRatio(pct), MinRiskReward)
        \/ /\ Len(recent_trades) >= 3
           /\ \A i \in 1 .. 3 : LastThree(recent_trades)[i] < 0

\* the spreads the callers ask about: 0.2, 2.99, 3 and 5 percent
SkipPcts == {Frac(2, 10), Frac(299, 100), Frac(3, 1), Frac(5, 1)}
\* the profits of the completed trades, milli-dollars
LoggedProfits == {-1000, -5, 2000}

\* a trade completes and add_trade stores it with its profit
LogTrade ==
    \E profit \in LoggedProfits :
        /\ Len(trade_log) < MaxLogged
        /\ trade_log' = Append(trade_log, profit)
        /\ UNCHANGED skip_ret
        /\ UNCHANGED <<riskVars, ret, clockVars, engineVars, outVars, detVars,
                       monVars, sizeVars, recVars, taskVars, statVars, lifeVars, gateVars>>

\* a caller runs should_skip_opportunity(opportunity)
CallShouldSkipOpportunity ==
    \E pct \in SkipPcts :
        /\ skip_ret' = [called |-> TRUE, pct |-> pct, log |-> trade_log,
                        result |-> ShouldSkipOpportunity(pct)]
        /\ UNCHANGED trade_log
        /\ UNCHANGED <<riskVars, ret, clockVars, engineVars, outVars, detVars,
                       monVars, sizeVars, recVars, taskVars, statVars, lifeVars, gateVars>>

\* round(x, 2) of the amount num/den cents: to the nearest cent, ties to even
RoundCents(num, den) ==
    LET q == num \div den
        r == num % den
    IN  IF 2 * r < den THEN q
        ELSE IF 2 * r > den THEN q + 1
        ELSE IF q % 2 = 0 THEN q ELSE q + 1

\* calculate_position_size, in cents: risk_per_trade = 0.02 and the assumed
\* potential loss = 0.02 cancel, then the two caps and the rounding
CalculatePositionSize(available_balance) ==
    LET risk_amount_x100 == available_balance * 2
        by_risk_x10 == (risk_amount_x100 * 10) \div 2
        capped_x10 == Min(Min(by_risk_x10, MaxPositionCents * 10),
                          available_balance * 8)
    IN  RoundCents(capped_x10, 10)

\* the available balances, in cents: the small ones, the ones around the
\* balance at which both caps meet, and the one the code assumes
SizeBalances == (0 .. MaxSizeBalance) \cup {124999, 125000, 125001,
                                            AvailableBalanceCents}

\* the available balance a query of the venues' balances would return
\* (_get_available_balance; the code returns 10000.0 at every call)
GetAvailableBalance ==
    \E b \in SizeBalances :
        /\ size_balance' = b
        /\ size_out' = <<>>
        /\ UNCHANGED <<riskVars, ret, clockVars, engineVars, outVars, detVars,
                       monVars, recVars, taskVars, statVars, skipVars, lifeVars, gateVars>>

\* a caller runs calculate_position_size(opportunity)
CallCalculatePositionSize ==
    /\ Len(size_out) < MaxSizeCalls
    /\ size_out' = Append(size_out, CalculatePositionSize(size_balance))
    /\ UNCHANGED size_balance
    /\ UNCHANGED <<riskVars, ret, clockVars, engineVars, outVars, detVars,
                   monVars, recVars, taskVars, statVars, skipVars, lifeVars, gateVars>>

\* -------------------------------------------------------------------------
\* ExchangeManager (exchange_manager.py): quotes and the detector
\* -------------------------------------------------------------------------
Venues == {"binance", "coinbase"}
\* the order in which self.exchanges is iterated
VenueOrder == <<"binance", "coinbase">>

\* quoted prices, in milli-dollars: 1.000, 1.002, 1.060
QuotePrices == {1000, 1002, 1060}
Quotes == {q \in [bid : QuotePrices, ask : QuotePrices] : q.bid <= q.ask}
\* a venue that did not answer has no entry (get_best_prices skips it)
NoQuote == [bid |-> None, ask |-> None]
Snapshots == [Venues -> Quotes \cup {NoQuote}]

\* the tickers get_ticker gives in a find_arbitrage_opportunities call:
\* prices around the profit floor (0.05, 0.1 and 0.2 percent above 2.000) and
\* base volumes
TickerPrices == {2000, 2001, 2002, 2004}
TickerVolumes == {3, 5}
Tickers == {t \in [bid : TickerPrices, ask : TickerPrices, volume : TickerVolumes] :
               t.bid <= t.ask}
\* get_ticker returned None
NoTicker == [bid |-> None, ask |-> None, volume |-> None]

\* get_best_prices: an entry with bid and ask (and the spread, which nothing
\* reads) for every venue whose get_ticker gave a ticker; the ticker's volume
\* is not copied
GetBestPrices(venue_tickers) ==
    [v \in Venues |->
        IF venue_tickers[v] = NoTicker THEN NoQuote
        ELSE [bid |-> venue_tickers[v].bid, ask |-> venue_tickers[v].ask]]

\* price.get('volume', 0)
VolumeOf(price) == IF "volume" \in DOMAIN price THEN price.volume ELSE 0

\* (as Direction, with the profit floor compared by > instead of >=)
DirectionAboveFloor(prices, x, y) ==
    IF /\ prices[x].ask < prices[y].bid
       /\ FracLT(MinProfitPct,
                 Frac((prices[y].bid - prices[x].ask) * 100, prices[x].ask))
    THEN <<[buy_exchange |-> x, sell_exchange |-> y,
            buy_price |-> prices[x].ask, sell_price |-> prices[y].bid,
            profit_percentage |->
                Frac((prices[y].bid - prices[x].ask) * 100, prices[x].ask),
            volume |-> Min(VolumeOf(prices[x]), VolumeOf(prices[y]))]>>
    ELSE <<>>

\* one direction of find_arbitrage_opportunities: buy on x, sell on y
Direction(prices, x, y) ==
    IF /\ prices[x].ask < prices[y].bid
       /\ FracGE(Frac((prices[y].bid - prices[x].ask) * 100, prices[x].ask),
                 MinProfitPct)
    THEN <<[buy_exchange |-> x, sell_exchange |-> y,
            buy_price |-> prices[x].ask, sell_price |-> prices[y].bid,
            profit_percentage |->
                Frac((prices[y].bid - prices[x].ask) * 100, prices[x].ask),
            volume |-> Min(VolumeOf(prices[x]), VolumeOf(prices[y]))]>>
    ELSE <<>>

\* find_arbitrage_opportunities for the two venues, in the order of the loops
FindArbitrageOpportunities(prices) ==
    LET e1 == VenueOrder[1]
        e2 == VenueOrder[2]
    IN  IF prices[e1] = NoQuote \/ prices[e2] = NoQuote THEN <<>>
        ELSE Direction(prices, e1, e2) \o Direction(prices, e2, e1)

\* one find_arbitrage_opportunities(symbol) call: get_best_prices asks every
\* venue for its ticker, then the pairs are compared
FindCall ==
    /\ \E venue_tickers \in [Venues -> Tickers \cup {NoTicker}] :
          /\ det_tickers' = venue_tickers
          /\ det_out' = FindArbitrageOpportunities(GetBestPrices(venue_tickers))
    /\ UNCHANGED <<riskVars, ret, clockVars, engineVars, outVars, monVars, auxVars>>

\* -------------------------------------------------------------------------
\* ArbitrageEngine (arbitrage_engine.py)
\* -------------------------------------------------------------------------
\* get_balance results: None (no exchange, or an error), 0.0, or some funds
Balances == {None, 0, 500}

\* what get_best_prices gives for one venue's ask or bid at the revalidation:
\* a price, or None for a venue without a quote
CurrentPrices == QuotePrices \cup {None}

\* no revalidation let an opportunity through
NoReval == [called |-> FALSE, buy_balance |-> None, sell_balance |-> None,
            current_buy_price |-> None, current_sell_price |-> None]

\* (as StillValid, without the two slippage comparisons)
StillValidAnyPrice(o, buy_balance, sell_balance, current_buy_price, current_sell_price) ==
    /\ buy_balance # None /\ buy_balance # 0
    /\ sell_balance # None /\ sell_balance # 0
    /\ current_buy_price # None
    /\ current_sell_price # None

\* the checks of _should_execute_opportunity after the risk check
\* (max_slippage = 0.0005); current_buy_price is the buy venue's current ask,
\* current_sell_price the sell venue's current bid
StillValid(o, buy_balance, sell_balance, current_buy_price, current_sell_price) ==
    /\ buy_balance # None /\ buy_balance # 0
    /\ sell_balance # None /\ sell_balance # 0
    /\ current_buy_price # None
    /\ current_sell_price # None
    /\ ~(current_buy_price * 10000 > o.buy_price * 10005)
    /\ ~(current_sell_price * 10000 < o.sell_price * 9995)

\* (as ShouldExecuteOpportunity, without the answer of can_execute_trade)
ShouldExecuteOpportunityNoGate(o, buy_balance, sell_balance, current_buy_price, current_sell_price) ==
    /\ ~FracLT(o.profit_percentage, MinProfitPct)
    /\ StillValid(o, buy_balance, sell_balance, current_buy_price,
                  current_sell_price)

\* _should_execute_opportunity: the profit floor comes first, and the risk
\* manager is asked only when it passes
ShouldExecuteOpportunity(o, buy_balance, sell_balance, current_buy_price, current_sell_price) ==
    /\ ~FracLT(o.profit_percentage, MinProfitPct)
    /\ CanExecuteTrade(o.profit_percentage)
    /\ StillValid(o, buy_balance, sell_balance, current_buy_price,
                  current_sell_price)

NoOpportunity == [buy_exchange |-> "", sell_exchange |-> "", buy_price |-> None,
                  sell_price |-> None, profit_percentage |-> Frac(0, 1),
                  volume |-> 0]

NoOrder == [status |-> "none", price |-> None]

\* the local variables of one _execute_arbitrage call: buy_order and
\* sell_order are "unset", "order" or "None" (place_order's result), buy_status
\* and sell_status are "unset", "closed" or "other" (no status, or one that is
\* not 'closed').  calls are the venue calls it made, notified the trade
\* notifications it sent, outcome the statement it ended at ("running" until
\* then): "buy_place_failed" (line 138), "buy_not_filled" (line 152),
\* "sell_place_failed" (line 165), "sell_not_filled" (line 179), "completed"
\* (line 238), "error" (the except clause, line 242)
NoTrade == [trade_id |-> None, position_size |-> 0,
            buy_order |-> "unset", buy_status |-> "unset", buy_price |-> None,
            sell_order |-> "unset", sell_status |-> "unset", sell_price |-> None,
            net_computed |-> FALSE, net_profit |-> 0,
            calls |-> <<>>, notified |-> 0, outcome |-> "none"]

\* the ticker get_ticker builds for a venue (last, volume and timestamp are
\* carried along and not read)
MonTickers(v) == {[exchange |-> v, bid |-> q.bid, ask |-> q.ask] : q \in Quotes}
NoMonTicker == [exchange |-> "", bid |-> None, ask |-> None]

\* the state of one _async_get_ticker task: not created, pending, or done
\* with a ticker, with None (get_ticker caught the venue's error) or with an
\* exception (kept by gather, return_exceptions=True)
NoTask == [kind |-> "none", ticker |-> NoMonTicker]
PendingTask == [kind |-> "pending", ticker |-> NoMonTicker]
TaskResults(v) ==
    {[kind |-> "ticker", ticker |-> t] : t \in MonTickers(v)}
        \cup {[kind |-> "None", ticker |-> NoMonTicker],
              [kind |-> "exception", ticker |-> NoMonTicker]}

\* the tasks of start(): _monitor_prices, _check_arbitrage_opportunities,
\* _monitor_active_trades, _update_daily_stats
Tasks == {"prices", "scan", "trades", "stats"}

InitStats == [total_trades |-> 0, successful_trades |-> 0, failed_trades |-> 0,
              total_profit |-> 0, total_loss |-> 0]

\* a key of daily_stats that is not there, and one that holds a value
NoKey == [set |-> FALSE, value |-> Frac(0, 1)]
Key(x) == [set |-> TRUE, value |-> x]
NoDerivedStats == [win_rate |-> NoKey, average_profit |-> NoKey,
                   net_profit |-> NoKey]

Init ==
    /\ daily_loss = 0
    /\ daily_trades = 0
    /\ rm_active_trades = <<>>
    /\ max_drawdown = Frac(0, 1)
    /\ peak_balance = 0
    /\ current_balance = 0
    /\ last_reset = 0
    /\ ret = [op |-> "none", pct |-> Frac(0, 1), result |-> FALSE]
    /\ now = 0
    /\ today = 0
    /\ running = FALSE
    /\ daily_stats = InitStats
    /\ pc = "idle"
    /\ symbols_left = 0
    /\ opportunities = <<>>
    /\ opportunity = NoOpportunity
    /\ cur = NoTrade
    /\ nexec = 0
    /\ ncycles = 0
    /\ unregistered = 0
    /\ orders = [buy |-> NoOrder, sell |-> NoOrder]
    /\ notifications = 0
    /\ db_trades = 0
    /\ det_tickers = [v \in Venues |-> NoTicker]
    /\ det_out = <<>>
    /\ mon_pc = "idle"
    /\ mon_symbols_left = 0
    /\ results = [v \in Venues |-> NoTask]
    /\ tickers = [v \in Venues |-> NoMonTicker]
    /\ agg_status = "none"
    /\ price_rows = {}
    /\ db_failed_at = "none"
    /\ size_balance = AvailableBalanceCents
    /\ size_out = <<>>
    /\ rec_call = [profit |-> 0, trade_id |-> None, day |-> None]
    /\ task_pc = [t \in Tasks |-> "idle"]
    /\ derived_stats = NoDerivedStats
    /\ summary = [taken |-> FALSE, daily_stats |-> InitStats,
                  derived |-> NoDerivedStats]
    /\ trade_log = <<>>
    /\ skip_ret = [called |-> FALSE, pct |-> Frac(0, 1), log |-> <<>>,
                   result |-> FALSE]
    /\ pending_starts = 0
    /\ scan_loops = <<>>
    /\ bot_running = FALSE
    /\ signals = {}
    /\ reval = NoReval

\* start(): running = True and the scan task begins
Start ==
    /\ pc = "idle"
    /\ running' = TRUE
    /\ pc' = "loop"
    /\ UNCHANGED <<riskVars, ret, clockVars, daily_stats, symbols_left,
                   opportunities, opportunity, cur, nexec, ncycles, unregistered,
                   outVars>>
    /\ UNCHANGED <<detVars, monVars, auxVars>>

\* stop()
Stop ==
    /\ running
    /\ running' = FALSE
    /\ UNCHANGED <<riskVars, ret, clockVars, daily_stats, pc, symbols_left,
                   opportunities, opportunity, cur, nexec, ncycles, unregistered,
                   outVars>>
    /\ UNCHANGED <<detVars, monVars, auxVars>>

\* _check_arbitrage_opportunities: the while test, then the loop over
\* config.trading_pairs begins
ScanCycle ==
    /\ pc = "loop"
    /\ IF running
       THEN /\ ncycles < MaxCycles
            /\ ncycles' = ncycles + 1
            /\ symbols_left' = NumPairs
            /\ pc' = "iter"
       ELSE /\ pc' = "stopped"
            /\ UNCHANGED <<symbols_left, ncycles>>
    /\ UNCHANGED <<riskVars, ret, clockVars, running, daily_stats, opportunities,
                   opportunity, cur, nexec, unregistered, outVars>>
    /\ UNCHANGED <<detVars, monVars, auxVars>>

\* the next trading pair: find_arbitrage_opportunities on the quotes the
\* venues return for it
ScanSymbol ==
    /\ pc = "iter"
    /\ opportunities = <<>>
    /\ symbols_left > 0
    /\ symbols_left' = symbols_left - 1
    /\ \E found \in {FindArbitrageOpportunities(prices) : prices \in Snapshots} :
          opportunities' = found
    /\ UNCHANGED <<riskVars, ret, clockVars, running, daily_stats, pc,
                   opportunity, cur, nexec, ncycles, unregistered, outVars>>
    /\ UNCHANGED <<detVars, monVars, auxVars>>

\* the loops are over: asyncio.sleep(arbitrage_check_interval)
EndCycle ==
    /\ pc = "iter"
    /\ opportunities = <<>>
    /\ symbols_left = 0
    /\ pc' = "loop"
    /\ now' = now + CheckIntervalMs
    /\ UNCHANGED <<riskVars, ret, today, running, daily_stats, symbols_left,
                   opportunities, opportunity, cur, nexec, ncycles, unregistered,
                   outVars>>
    /\ UNCHANGED <<detVars, monVars, auxVars>>

\* the for loop takes the next opportunity and runs
\* _should_execute_opportunity on it
CheckOpportunity ==
    /\ pc = "iter"
    /\ opportunities # <<>>
    /\ nexec < MaxExecs
    /\ LET o == Head(opportunities) IN
       \E buy_balance \in Balances, sell_balance \in Balances,
          current_buy_price \in CurrentPrices,
          current_sell_price \in CurrentPrices :
          LET should_execute ==
                  ShouldExecuteOpportunity(o, buy_balance, sell_balance,
                                           current_buy_price, current_sell_price)
          IN  /\ opportunities' = Tail(opportunities)
              /\ IF FracLT(o.profit_percentage, MinProfitPct)
                 THEN UNCHANGED <<riskVars, ret>>
                 ELSE RiskCheck(o.profit_percentage)
              /\ IF should_execute
                 THEN /\ pc' = "execute"
                      /\ opportunity' = o
                      /\ unregistered' = unregistered + 1
                      /\ reval' = [called |-> TRUE,
                                   buy_balance |-> buy_balance,
                                   sell_balance |-> sell_balance,
                                   current_buy_price |-> current_buy_price,
                                   current_sell_price |-> current_sell_price]
                 ELSE /\ UNCHANGED <<pc, opportunity, unregistered>>
                      /\ reval' = NoReval
    /\ UNCHANGED <<clockVars, running, daily_stats, symbols_left, cur, nexec,
                   ncycles, outVars>>
    /\ UNCHANGED <<detVars, monVars, sizeVars, recVars, taskVars, statVars,
                   skipVars, lifeVars>>

\* one venue call of the current execution, kept in cur.calls
Call(fn, side) == [fn |-> fn, side |-> side]

\* _execute_arbitrage, lines 119-125: the trade id from the clock and the
\* position size (cents to whole dollars); what _should_execute_opportunity
\* read is gone by now
ExecStart ==
    /\ pc = "execute"
    /\ cur' = [NoTrade EXCEPT
                  !.trade_id = now,
                  !.position_size =
                      CalculatePositionSize(AvailableBalanceCents) \div 100,
                  !.outcome = "running"]
    /\ orders' = [buy |-> NoOrder, sell |-> NoOrder]
    /\ nexec' = nexec + 1
    /\ pc' = "place_buy"
    /\ UNCHANGED <<riskVars, ret, clockVars, running, daily_stats, symbols_left,
                   opportunities, opportunity, ncycles, unregistered,
                   notifications, db_trades>>
    /\ reval' = NoReval
    /\ UNCHANGED <<detVars, monVars, sizeVars, recVars, taskVars, statVars,
                   skipVars, lifeVars>>

\* (as PlaceBuy, without the return when there is no buy order)
PlaceBuyNoReturn ==
    /\ pc = "place_buy"
    /\ \E placed \in BOOLEAN :
          /\ orders' = IF placed
                       THEN [orders EXCEPT !.buy = [status |-> "open", price |-> None]]
                       ELSE orders
          /\ cur' = IF placed
                    THEN [cur EXCEPT !.buy_order = "order",
                                     !.calls = Append(@, Call("place_order", "buy"))]
                    ELSE [cur EXCEPT !.buy_order = "None"]
          /\ pc' = "wait_buy"
    /\ UNCHANGED <<riskVars, ret, clockVars, running, daily_stats, symbols_left,
                   opportunities, opportunity, nexec, ncycles, unregistered,
                   notifications, db_trades>>
    /\ UNCHANGED <<detVars, monVars, auxVars>>

\* lines 127-138: place_order(buy) gives None when the venue call raises, and
\* _execute_arbitrage returns
PlaceBuy ==
    /\ pc = "place_buy"
    /\ \E placed \in BOOLEAN :
          IF placed
          THEN /\ orders' = [orders EXCEPT !.buy = [status |-> "open", price |-> None]]
               /\ cur' = [cur EXCEPT !.buy_order = "order",
                                     !.calls = Append(@, Call("place_order", "buy"))]
               /\ pc' = "wait_buy"
               /\ UNCHANGED opportunity
          ELSE /\ cur' = [cur EXCEPT !.buy_order = "None",
                                     !.outcome = "buy_place_failed"]
               /\ pc' = "iter"
               /\ opportunity' = NoOpportunity
               /\ UNCHANGED orders
    /\ UNCHANGED <<riskVars, ret, clockVars, running, daily_stats, symbols_left,
                   opportunities, nexec, ncycles, unregistered, notifications,
                   db_trades>>
    /\ UNCHANGED <<detVars, monVars, auxVars>>

\* line 141: asyncio.sleep(execution_delay)
WaitBuy ==
    /\ pc = "wait_buy"
    /\ now' = now + ExecutionDelayMs
    /\ pc' = "poll_buy"
    /\ UNCHANGED <<riskVars, ret, today, running, daily_stats, symbols_left,
                   opportunities, opportunity, cur, nexec, ncycles, unregistered,
                   outVars>>
    /\ UNCHANGED <<detVars, monVars, auxVars>>

\* (as PollBuy, going on to the sell leg whatever the status)
PollBuyIgnoresStatus ==
    /\ pc = "poll_buy"
    /\ \E answered \in BOOLEAN :
          LET closed == answered /\ orders.buy.status = "closed" IN
          /\ cur' = [cur EXCEPT
                        !.calls = Append(@, Call("get_order_status", "buy")),
                        !.buy_status = IF closed THEN "closed" ELSE "other",
                        !.buy_price = IF closed THEN orders.buy.price ELSE @]
          /\ pc' = "place_sell"
    /\ UNCHANGED <<riskVars, ret, clockVars, running, daily_stats, symbols_left,
                   opportunities, opportunity, nexec, ncycles, unregistered,
                   outVars>>
    /\ UNCHANGED <<detVars, monVars, auxVars>>

\* lines 144-149: get_order_status(buy) gives None when the venue call raises
PollBuy ==
    /\ pc = "poll_buy"
    /\ \E answered \in BOOLEAN :
          LET closed == answered /\ orders.buy.status = "closed" IN
          /\ cur' = [cur EXCEPT
                        !.calls = Append(@, Call("get_order_status", "buy")),
                        !.buy_status = IF closed THEN "closed" ELSE "other",
                        !.buy_price = IF closed THEN orders.buy.price ELSE @]
          /\ pc' = IF closed THEN "place_sell" ELSE "cancel_buy"
    /\ UNCHANGED <<riskVars, ret, clockVars, running, daily_stats, symbols_left,
                   opportunities, opportunity, nexec, ncycles, unregistered,
                   outVars>>
    /\ UNCHANGED <<detVars, monVars, auxVars>>

\* cancel_order at the venue: an open order is cancelled unless the call
\* raises; the caller does not look at the result
CancelAtVenue(side) ==
    \E done \in BOOLEAN :
        orders' = IF done /\ orders[side].status = "open"
                  THEN [orders EXCEPT ![side].status = "canceled"]
                  ELSE orders

\* (as CancelBuy, returning without the cancel_order call)
CancelBuyWithoutCancel ==
    /\ pc = "cancel_buy"
    /\ cur' = [cur EXCEPT !.outcome = "buy_not_filled"]
    /\ pc' = "iter"
    /\ opportunity' = NoOpportunity
    /\ UNCHANGED <<riskVars, ret, clockVars, running, daily_stats, symbols_left,
                   opportunities, nexec, ncycles, unregistered, outVars>>
    /\ UNCHANGED <<detVars, monVars, auxVars>>

\* lines 150-152: the buy order is not filled: cancel it and return
CancelBuy ==
    /\ pc = "cancel_buy"
    /\ CancelAtVenue("buy")
    /\ cur' = [cur EXCEPT !.calls = Append(@, Call("cancel_order", "buy")),
                          !.outcome = "buy_not_filled"]
    /\ pc' = "iter"
    /\ opportunity' = NoOpportunity
    /\ UNCHANGED <<riskVars, ret, clockVars, running, daily_stats, symbols_left,
                   opportunities, nexec, ncycles, unregistered, notifications,
                   db_trades>>
    /\ UNCHANGED <<detVars, monVars, auxVars>>

\* lines 154-165: place_order(sell)
PlaceSell ==
    /\ pc = "place_sell"
    /\ \E placed \in BOOLEAN :
          IF placed
          THEN /\ orders' = [orders EXCEPT !.sell = [status |-> "open", price |-> None]]
               /\ cur' = [cur EXCEPT !.sell_order = "order",
                                     !.calls = Append(@, Call("place_order", "sell"))]
               /\ pc' = "wait_sell"
               /\ UNCHANGED opportunity
          ELSE /\ cur' = [cur EXCEPT !.sell_order = "None",
                                     !.outcome = "sell_place_failed"]
               /\ pc' = "iter"
               /\ opportunity' = NoOpportunity
               /\ UNCHANGED orders
    /\ UNCHANGED <<riskVars, ret, clockVars, running, daily_stats, symbols_left,
                   opportunities, nexec, ncycles, unregistered, notifications,
                   db_trades>>
    /\ UNCHANGED <<detVars, monVars, auxVars>>

\* line 168: asyncio.sleep(execution_delay)
WaitSell ==
    /\ pc = "wait_sell"
    /\ now' = now + ExecutionDelayMs
    /\ pc' = "poll_sell"
    /\ UNCHANGED <<riskVars, ret, today, running, daily_stats, symbols_left,
                   opportunities, opportunity, cur, nexec, ncycles, unregistered,
                   outVars>>
    /\ UNCHANGED <<detVars, monVars, auxVars>>

\* lines 171-176: get_order_status(sell)
PollSell ==
    /\ pc = "poll_sell"
    /\ \E answered \in BOOLEAN :
          LET closed == answered /\ orders.sell.status = "closed" IN
          /\ cur' = [cur EXCEPT
                        !.calls = Append(@, Call("get_order_status", "sell")),
                        !.sell_status = IF closed THEN "closed" ELSE "other",
                        !.sell_price = IF closed THEN orders.sell.price ELSE @]
          /\ pc' = IF closed THEN "settle" ELSE "cancel_sell"
    /\ UNCHANGED <<riskVars, ret, clockVars, running, daily_stats, symbols_left,
                   opportunities, opportunity, nexec, ncycles, unregistered,
                   outVars>>
    /\ UNCHANGED <<detVars, monVars, auxVars>>

\* (as CancelSell, returning only once the venue has cancelled the order)
CancelSellNeedsSuccess ==
    /\ pc = "cancel_sell"
    /\ orders.sell.status = "open"
    /\ orders' = [orders EXCEPT !.sell.status = "canceled"]
    /\ cur' = [cur EXCEPT !.calls = Append(@, Call("cancel_order", "sell")),
                          !.outcome = "sell_not_filled"]
    /\ pc' = "iter"
    /\ opportunity' = NoOpportunity
    /\ UNCHANGED <<riskVars, ret, clockVars, running, daily_stats, symbols_left,
                   opportunities, nexec, ncycles, unregistered, notifications,
                   db_trades>>
    /\ UNCHANGED <<detVars, monVars, auxVars>>

\* (as CancelSell, booking the abandoned trade as a loss of 1)
CancelSellCountsLoss ==
    /\ pc = "cancel_sell"
    /\ CancelAtVenue("sell")
    /\ cur' = [cur EXCEPT !.calls = Append(@, Call("cancel_order", "sell")),
                          !.outcome = "sell_not_filled"]
    /\ pc' = "iter"
    /\ opportunity' = NoOpportunity
    /\ daily_stats' = [daily_stats EXCEPT !.failed_trades = @ + 1,
                                          !.total_loss = @ + 1,
                                          !.total_trades = @ + 1]
    /\ UNCHANGED <<riskVars, ret, clockVars, running, symbols_left,
                   opportunities, nexec, ncycles, unregistered, notifications,
                   db_trades>>
    /\ UNCHANGED <<detVars, monVars, auxVars>>

\* (as CancelSell, returning without the cancel_order call)
CancelSellWithoutCancel ==
    /\ pc = "cancel_sell"
    /\ cur' = [cur EXCEPT !.outcome = "sell_not_filled"]
    /\ pc' = "iter"
    /\ opportunity' = NoOpportunity
    /\ UNCHANGED <<riskVars, ret, clockVars, running, daily_stats, symbols_left,
                   opportunities, nexec, ncycles, unregistered, outVars>>
    /\ UNCHANGED <<detVars, monVars, auxVars>>

\* lines 177-179: the sell order is not filled: cancel it and return
CancelSell ==
    /\ pc = "cancel_sell"
    /\ CancelAtVenue("sell")
    /\ cur' = [cur EXCEPT !.calls = Append(@, Call("cancel_order", "sell")),
                          !.outcome = "sell_not_filled"]
    /\ pc' = "iter"
    /\ opportunity' = NoOpportunity
    /\ UNCHANGED <<riskVars, ret, clockVars, running, daily_stats, symbols_left,
                   opportunities, nexec, ncycles, unregistered, notifications,
                   db_trades>>
    /\ UNCHANGED <<detVars, monVars, auxVars>>

\* calculate_fees: 0.0 when the exchange info or the market is missing or the
\* call raises, else amount * price * 0.001 (the default maker fee)
CalculateFees(known, amount, price) ==
    IF known THEN (amount * price) \div 1000 ELSE 0

\* lines 219-226: the statistics of a trade that went through
UpdateStatistics(net_profit) ==
    IF net_profit > 0
    THEN [daily_stats EXCEPT !.successful_trades = @ + 1,
                             !.total_profit = @ + net_profit,
                             !.total_trades = @ + 1]
    ELSE [daily_stats EXCEPT !.failed_trades = @ + 1,
                             !.total_loss = @ + Abs(net_profit),
                             !.total_trades = @ + 1]

\* lines 240-242: the except clause of _execute_arbitrage
ExceptClause ==
    [daily_stats EXCEPT !.failed_trades = @ + 1]

\* lines 181-226: profit, fees, the database record and the statistics.  A
\* status without a price (None) raises at line 184, add_trade may raise at
\* line 205: both end in the except clause
Settle ==
    /\ pc = "settle"
    /\ \E buy_known \in BOOLEAN, sell_known \in BOOLEAN, stored \in BOOLEAN :
          LET actual_profit == (cur.sell_price - cur.buy_price) * cur.position_size
              buy_fees == CalculateFees(buy_known, cur.position_size, cur.buy_price)
              sell_fees == CalculateFees(sell_known, cur.position_size, cur.sell_price)
              net_profit == actual_profit - (buy_fees + sell_fees)
              fee_calls == cur.calls \o <<Call("calculate_fees", "buy"),
                                          Call("calculate_fees", "sell")>>
          IN  IF cur.buy_price = None \/ cur.sell_price = None
              THEN /\ daily_stats' = ExceptClause
                   /\ cur' = [cur EXCEPT !.outcome = "error"]
                   /\ pc' = "iter"
                   /\ opportunity' = NoOpportunity
                   /\ UNCHANGED db_trades
              ELSE IF ~stored
              THEN /\ daily_stats' = ExceptClause
                   /\ cur' = [cur EXCEPT !.net_computed = TRUE,
                                         !.net_profit = net_profit,
                                         !.calls = fee_calls,
                                         !.outcome = "error"]
                   /\ pc' = "iter"
                   /\ opportunity' = NoOpportunity
                   /\ UNCHANGED db_trades
              ELSE /\ db_trades' = db_trades + 1
                   /\ daily_stats' = UpdateStatistics(net_profit)
                   /\ cur' = [cur EXCEPT !.net_computed = TRUE,
                                         !.net_profit = net_profit,
                                         !.calls = fee_calls]
                   /\ pc' = "notify"
                   /\ UNCHANGED opportunity
    /\ UNCHANGED <<riskVars, ret, clockVars, running, symbols_left, opportunities,
                   nexec, ncycles, unregistered, orders, notifications>>
    /\ UNCHANGED <<detVars, monVars, auxVars>>

\* lines 229-238: send_trade_notification (enable_notifications is True; the
\* senders swallow their own errors), then the call returns
Notify ==
    /\ pc = "notify"
    /\ notifications' = notifications + 1
    /\ cur' = [cur EXCEPT !.notified = @ + 1, !.outcome = "completed"]
    /\ pc' = "iter"
    /\ opportunity' = NoOpportunity
    /\ UNCHANGED <<riskVars, ret, clockVars, running, daily_stats, symbols_left,
                   opportunities, nexec, ncycles, unregistered, orders, db_trades>>
    /\ UNCHANGED <<detVars, monVars, auxVars>>

\* the prices a venue reports for a filled order; None: a market order
\* reported without a price
FillPrices == {1000, 1002, None}

\* the venue fills an open order
VenueFill ==
    /\ \E side \in {"buy", "sell"}, p \in FillPrices :
          /\ orders[side].status = "open"
          /\ orders' = [orders EXCEPT ![side] = [status |-> "closed", price |-> p]]
    /\ UNCHANGED <<riskVars, ret, clockVars, engineVars, notifications, db_trades>>
    /\ UNCHANGED <<detVars, monVars, auxVars>>

\* -------------------------------------------------------------------------
\* The price monitor task: _monitor_prices (arbitrage_engine.py) and
\* get_all_tickers (exchange_manager.py)
\* -------------------------------------------------------------------------
\* the place of a venue in self.exchanges.keys()
Pos(v) == CHOOSE i \in DOMAIN VenueOrder : VenueOrder[i] = v

\* the venues whose task gave a ticker ("elif result:")
Answered == {v \in Venues : results[v].kind = "ticker"}

\* the task created by start() begins to run
MonStart ==
    /\ mon_pc = "idle"
    /\ running
    /\ mon_pc' = "loop"
    /\ UNCHANGED <<mon_symbols_left, results, tickers, agg_status, price_rows,
                   db_failed_at>>
    /\ UNCHANGED <<riskVars, ret, clockVars, engineVars, outVars, detVars, auxVars>>

\* _monitor_prices: the while test, then the loop over config.trading_pairs
\* begins
MonLoop ==
    /\ mon_pc = "loop"
    /\ IF running
       THEN /\ mon_symbols_left' = NumPairs
            /\ mon_pc' = "symbol"
       ELSE /\ mon_pc' = "stopped"
            /\ UNCHANGED mon_symbols_left
    /\ UNCHANGED <<results, tickers, agg_status, price_rows, db_failed_at>>
    /\ UNCHANGED <<riskVars, ret, clockVars, engineVars, outVars, detVars, auxVars>>

\* get_all_tickers(symbol), lines 59-66: one task per venue, then gather
GetAllTickers ==
    /\ mon_pc = "symbol"
    /\ mon_symbols_left > 0
    /\ mon_symbols_left' = mon_symbols_left - 1
    /\ results' = [v \in Venues |-> PendingTask]
    /\ tickers' = [v \in Venues |-> NoMonTicker]
    /\ agg_status' = "running"
    /\ price_rows' = {}
    /\ db_failed_at' = "none"
    /\ mon_pc' = "gather"
    /\ UNCHANGED <<riskVars, ret, clockVars, engineVars, outVars, detVars, auxVars>>

\* one venue's get_ticker ends in the executor
VenueFetch ==
    /\ \E v \in Venues :
          /\ results[v].kind = "pending"
          /\ \E r \in TaskResults(v) : results' = [results EXCEPT ![v] = r]
    /\ UNCHANGED <<mon_pc, mon_symbols_left, tickers, agg_status, price_rows,
                   db_failed_at>>
    /\ UNCHANGED <<riskVars, ret, clockVars, engineVars, outVars, detVars, auxVars>>

\* get_all_tickers, lines 66-84: gather returns once every task is done, then
\* the results are gone through in the order of the venues: a ticker is put
\* in the map and handed to add_exchange_price, which re-raises what the
\* database raises (models.py:151-153); nothing catches it before
\* _monitor_prices' except clause
Collect ==
    /\ mon_pc = "gather"
    /\ \A v \in Venues : results[v].kind # "pending"
    /\ \E fail_at \in Answered \cup {"none"} :
          IF fail_at = "none"
          THEN /\ tickers' = [v \in Venues |->
                                 IF v \in Answered THEN results[v].ticker
                                 ELSE NoMonTicker]
               /\ price_rows' = Answered
               /\ agg_status' = "returned"
               /\ db_failed_at' = "none"
               /\ mon_pc' = "symbol"
          ELSE /\ tickers' = [v \in Venues |->
                                 IF v \in Answered /\ Pos(v) <= Pos(fail_at)
                                 THEN results[v].ticker ELSE NoMonTicker]
               /\ price_rows' = {v \in Answered : Pos(v) < Pos(fail_at)}
               /\ agg_status' = "raised"
               /\ db_failed_at' = fail_at
               /\ mon_pc' = "except"
    /\ UNCHANGED <<mon_symbols_left, results>>
    /\ UNCHANGED <<riskVars, ret, clockVars, engineVars, outVars, detVars, auxVars>>

\* line 58: every trading pair was gone through,
\* asyncio.sleep(price_update_interval)
MonSleep ==
    /\ mon_pc = "symbol"
    /\ mon_symbols_left = 0
    /\ mon_pc' = "loop"
    /\ UNCHANGED <<mon_symbols_left, results, tickers, agg_status, price_rows,
                   db_failed_at>>
    /\ UNCHANGED <<riskVars, ret, clockVars, engineVars, outVars, detVars, auxVars>>

\* lines 59-61: the except clause ends the for loop over the trading pairs,
\* asyncio.sleep(1), and the while loop goes on
MonExcept ==
    /\ mon_pc = "except"
    /\ mon_symbols_left' = 0
    /\ mon_pc' = "loop"
    /\ UNCHANGED <<results, tickers, agg_status, price_rows, db_failed_at>>
    /\ UNCHANGED <<riskVars, ret, clockVars, engineVars, outVars, detVars, auxVars>>

\* the steps of the price monitor task
Monitor ==
    \/ MonStart
    \/ MonLoop
    \/ GetAllTickers
    \/ Collect
    \/ MonSleep
    \/ MonExcept

\* the net profits of the trades counted next to the rollup, milli-dollars
StatNetProfits == {-1000, 2000, 3000}

\* _execute_arbitrage, lines 219-226 or 240-242: the statistics of one more
\* trade are counted; no await stands between the assignments
TradeStatistics ==
    /\ pc # "idle"
    /\ daily_stats.successful_trades + daily_stats.failed_trades < MaxStatTrades
    /\ \/ \E net_profit \in StatNetProfits :
             daily_stats' = UpdateStatistics(net_profit)
       \/ daily_stats' = ExceptClause
    /\ UNCHANGED <<running, pc, symbols_left, opportunities, opportunity, cur,
                   nexec, ncycles, unregistered>>
    /\ UNCHANGED <<riskVars, ret, clockVars, outVars, detVars, monVars,
                   sizeVars, recVars, taskVars, statVars, skipVars, lifeVars, gateVars>>

\* one cycle of _update_daily_stats, lines 269-283
UpdateDailyStats ==
    /\ running
    /\ derived_stats' =
          [win_rate |->
              IF daily_stats.total_trades > 0
              THEN Key(Frac(daily_stats.successful_trades * 100,
                            daily_stats.total_trades))
              ELSE derived_stats.win_rate,
           average_profit |->
              IF daily_stats.successful_trades > 0
              THEN Key(Frac(daily_stats.total_profit,
                            daily_stats.successful_trades))
              ELSE derived_stats.average_profit,
           net_profit |->
              Key(Frac(daily_stats.total_profit - daily_stats.total_loss, 1))]
    /\ UNCHANGED summary
    /\ UNCHANGED <<riskVars, ret, clockVars, engineVars, outVars, detVars,
                   monVars, sizeVars, recVars, taskVars, skipVars, lifeVars, gateVars>>

\* get_performance_summary(): the daily_stats dictionary as it is
GetPerformanceSummary ==
    /\ summary' = [taken |-> TRUE, daily_stats |-> daily_stats,
                   derived |-> derived_stats]
    /\ UNCHANGED derived_stats
    /\ UNCHANGED <<riskVars, ret, clockVars, engineVars, outVars, detVars,
                   monVars, sizeVars, recVars, taskVars, skipVars, lifeVars, gateVars>>

\* POST /api/start (start_bot): a task for engine.start() is created when
\* the engine is not running; the task runs later
StartBot ==
    /\ pending_starts + Len(scan_loops) < MaxStarts
    /\ IF ~running
       THEN pending_starts' = pending_starts + 1
       ELSE UNCHANGED pending_starts
    /\ UNCHANGED scan_loops
    /\ UNCHANGED <<riskVars, ret, clockVars, engineVars, outVars, detVars,
                   monVars, sizeVars, recVars, taskVars, statVars, skipVars, botVars, gateVars>>

\* a task of engine.start() runs: running = True, and the periodic tasks,
\* the scan loop among them, are created
EngineStart ==
    /\ pending_starts > 0
    /\ pending_starts' = pending_starts - 1
    /\ running' = TRUE
    /\ scan_loops' = Append(scan_loops, "loop")
    /\ UNCHANGED <<daily_stats, pc, symbols_left, opportunities, opportunity,
                   cur, nexec, ncycles, unregistered>>
    /\ UNCHANGED <<riskVars, ret, clockVars, outVars, detVars, monVars,
                   sizeVars, recVars, taskVars, statVars, skipVars, botVars, gateVars>>

\* POST /api/stop (stop_bot): engine.stop() when the engine is running
StopBot ==
    /\ running
    /\ running' = FALSE
    /\ UNCHANGED <<daily_stats, pc, symbols_left, opportunities, opportunity,
                   cur, nexec, ncycles, unregistered>>
    /\ UNCHANGED <<riskVars, ret, clockVars, outVars, detVars, monVars,
                   sizeVars, recVars, taskVars, statVars, skipVars, lifeVars, gateVars>>

\* one step of a scan loop (_check_arbitrage_opportunities): the while
\* test, a cycle that finds nothing to execute or awaits an execution, the
\* end of the execution, the sleep between two cycles
ScanLoopStep(i) ==
    /\ i \in DOMAIN scan_loops
    /\ \/ /\ scan_loops[i] = "loop"
          /\ scan_loops' = [scan_loops EXCEPT
                                ![i] = IF running THEN "cycle" ELSE "done"]
       \/ /\ scan_loops[i] = "cycle"
          /\ \E next \in {"execution", "sleep"} :
                scan_loops' = [scan_loops EXCEPT ![i] = next]
       \/ /\ scan_loops[i] = "execution"
          /\ scan_loops' = [scan_loops EXCEPT ![i] = "cycle"]
       \/ /\ scan_loops[i] = "sleep"
          /\ scan_loops' = [scan_loops EXCEPT ![i] = "loop"]
    /\ UNCHANGED pending_starts
    /\ UNCHANGED <<riskVars, ret, clockVars, engineVars, outVars, detVars,
                   monVars, sizeVars, recVars, taskVars, statVars, skipVars, botVars, gateVars>>

\* a task created by start() begins to run, at its while test
TaskStart(t) ==
    /\ task_pc[t] = "idle"
    /\ pc # "idle"
    /\ task_pc' = [task_pc EXCEPT ![t] = "loop"]
    /\ UNCHANGED <<riskVars, ret, clockVars, engineVars, outVars, detVars,
                   monVars, sizeVars, recVars, statVars, skipVars, lifeVars, gateVars>>

\* "while self.running:" of a periodic task
TaskLoop(t) ==
    /\ task_pc[t] = "loop"
    /\ task_pc' = [task_pc EXCEPT ![t] = IF running THEN "cycle" ELSE "done"]
    /\ UNCHANGED <<riskVars, ret, clockVars, engineVars, outVars, detVars,
                   monVars, sizeVars, recVars, statVars, skipVars, lifeVars, gateVars>>

\* the try body of a periodic task: the cycle goes through to its sleep, or
\* a statement of it raises
TaskCycle(t) ==
    /\ task_pc[t] = "cycle"
    /\ \E raised \in BOOLEAN :
          task_pc' = [task_pc EXCEPT ![t] = IF raised THEN "except" ELSE "sleep"]
    /\ UNCHANGED <<riskVars, ret, clockVars, engineVars, outVars, detVars,
                   monVars, sizeVars, recVars, statVars, skipVars, lifeVars, gateVars>>

\* the asyncio.sleep at the end of the try body is over
TaskSleep(t) ==
    /\ task_pc[t] = "sleep"
    /\ task_pc' = [task_pc EXCEPT ![t] = "loop"]
    /\ UNCHANGED <<riskVars, ret, clockVars, engineVars, outVars, detVars,
                   monVars, sizeVars, recVars, statVars, skipVars, lifeVars, gateVars>>

\* (as TaskExcept, with the error ending the task)
TaskExceptEndsTask(t) ==
    /\ task_pc[t] = "except"
    /\ task_pc' = [task_pc EXCEPT ![t] = "done"]
    /\ UNCHANGED <<riskVars, ret, clockVars, engineVars, outVars, detVars,
                   monVars, sizeVars, recVars, statVars, skipVars, lifeVars, gateVars>>

\* "except Exception as e:": the error is logged, asyncio.sleep(1), and the
\* while loop goes on
TaskExcept(t) ==
    /\ task_pc[t] = "except"
    /\ task_pc' = [task_pc EXCEPT ![t] = "loop"]
    /\ UNCHANGED <<riskVars, ret, clockVars, engineVars, outVars, detVars,
                   monVars, sizeVars, recVars, statVars, skipVars, lifeVars, gateVars>>

\* the steps of one periodic task
TaskStep(t) ==
    \/ TaskStart(t)
    \/ TaskLoop(t)
    \/ TaskCycle(t)
    \/ TaskSleep(t)
    \/ TaskExcept(t)

\* the signals main.py registers _signal_handler for
Signums == {"SIGINT", "SIGTERM"}

\* ForexArbitrageBot.start(): the startup notification, running = True, and
\* engine.start() sets the engine running and creates the periodic tasks
BotStart ==
    /\ pc = "idle"
    /\ ~bot_running
    /\ bot_running' = TRUE
    /\ running' = TRUE
    /\ pc' = "loop"
    /\ UNCHANGED signals
    /\ UNCHANGED <<daily_stats, symbols_left, opportunities, opportunity, cur,
                   nexec, ncycles, unregistered>>
    /\ UNCHANGED <<riskVars, ret, clockVars, outVars, detVars, monVars,
                   sizeVars, recVars, taskVars, statVars, skipVars,
                   pending_starts, scan_loops, gateVars>>

\* _signal_handler(signum, frame): the signal is logged and self.stop() is
\* called; stop is "async def", so the call makes a coroutine object and
\* runs none of its body: no field of the bot or of the engine changes.  The
\* signal arrives while the bot runs (before start() a stop has nothing to
\* stop)
SignalHandler(signum) ==
    /\ bot_running
    /\ signals' = signals \cup {signum}
    /\ UNCHANGED bot_running
    /\ UNCHANGED <<riskVars, ret, clockVars, engineVars, outVars, detVars,
                   monVars, sizeVars, recVars, taskVars, statVars, skipVars,
                   pending_starts, scan_loops, gateVars>>

\* "finally: await self.stop()" of ForexArbitrageBot.start(), reached when
\* engine.start() has returned, that is when asyncio.gather has seen the
\* four tasks end: running = False, engine.stop(), and the final summary is
\* read
BotStop ==
    /\ bot_running
    /\ \A t \in Tasks : task_pc[t] = "done"
    /\ bot_running' = FALSE
    /\ running' = FALSE
    /\ summary' = [taken |-> TRUE, daily_stats |-> daily_stats,
                   derived |-> derived_stats]
    /\ UNCHANGED <<derived_stats, signals>>
    /\ UNCHANGED <<daily_stats, pc, symbols_left, opportunities, opportunity,
                   cur, nexec, ncycles, unregistered>>
    /\ UNCHANGED <<riskVars, ret, clockVars, outVars, detVars, monVars,
                   sizeVars, recVars, taskVars, skipVars, pending_starts,
                   scan_loops, gateVars>>

\* the steps of one _execute_arbitrage call
Execute ==
    \/ ExecStart
    \/ PlaceBuy
    \/ WaitBuy
    \/ PollBuy
    \/ CancelBuy
    \/ PlaceSell
    \/ WaitSell
    \/ PollSell
    \/ CancelSell
    \/ Settle
    \/ Notify

\* the bot as it is wired, within one calendar day: the scan loop, its
\* executions, the venues and the clock
Next ==
    \/ Start
    \/ Stop
    \/ ScanCycle
    \/ ScanSymbol
    \/ CheckOpportunity
    \/ EndCycle
    \/ Execute
    \/ VenueFill

Spec == Init /\ [][Next]_vars

\* every step of a started execution is eventually taken (each venue call and
\* each sleep returns)
FairSpec == Spec /\ WF_vars(Execute)

\* the RiskManager under any sequence of can_execute_trade, add_active_trade
\* and record_trade calls and day changes
RiskNext ==
    \/ CallCanExecuteTrade
    \/ CallAddActiveTrade
    \/ CallRecordTrade
    \/ NewDay

RiskSpec == Init /\ [][RiskNext]_vars

\* the daily counters of the RiskManager under a wall clock whose date may
\* also be set back
RiskClockNext ==
    \/ CallCanExecuteTrade
    \/ CallRecordTrade
    \/ NewDay
    \/ DateBack

RiskClockSpec == Init /\ [][RiskClockNext]_vars

\* a caller that registers at most MaxLedgerActive trades
LedgerAddActiveTrade ==
    /\ Len(rm_active_trades) < MaxLedgerActive
    /\ CallAddActiveTrade

\* record_trade and can_execute_trade calls over the days, with the
\* trade_info and the date of each record_trade call kept
DayLossNext ==
    \/ RecordCall
    \/ CallCanExecuteTrade
    \/ NewDay

DayLossSpec == Init /\ [][DayLossNext]_vars

\* the daily-loss ledger under any sequence of record_trade, update_balance,
\* add_active_trade and can_execute_trade calls and day changes
RiskLedgerNext ==
    \/ CallCanExecuteTrade
    \/ CallRecordTrade
    \/ CallUpdateBalance
    \/ LedgerAddActiveTrade
    \/ NewDay

RiskLedgerSpec == Init /\ [][RiskLedgerNext]_vars

\* record_trade next to add_active_trade and update_balance, with the
\* trade_info of each record_trade call kept
RecordNext ==
    \/ RecordCall
    \/ RecAddActiveTrade
    \/ CallUpdateBalance

RecordSpec == Init /\ [][RecordNext]_vars

\* the four periodic tasks next to start() and stop()
TaskNext ==
    \/ Start
    \/ Stop
    \/ \E t \in Tasks : TaskStep(t)

TaskSpec == Init /\ [][TaskNext]_vars

\* the event loop runs every task that can take a step
TaskFairSpec == TaskSpec /\ \A t \in Tasks : WF_vars(TaskStep(t))

\* the statistics: the trades counted by _execute_arbitrage, the stats
\* rollup and the reads of get_performance_summary, next to start() and
\* stop()
StatsNext ==
    \/ Start
    \/ Stop
    \/ TradeStatistics
    \/ UpdateDailyStats
    \/ GetPerformanceSummary

StatsSpec == Init /\ [][StatsNext]_vars

\* the advisory gate next to the trades that complete
SkipNext ==
    \/ LogTrade
    \/ CallShouldSkipOpportunity

SkipSpec == Init /\ [][SkipNext]_vars

\* the dashboard's start and stop requests next to the scan loops they
\* create
LifeNext ==
    \/ StartBot
    \/ EngineStart
    \/ StopBot
    \/ \E i \in 1 .. MaxStarts : ScanLoopStep(i)

LifeSpec == Init /\ [][LifeNext]_vars

\* the bot of main.py: its start, the signals it handles, the periodic
\* tasks of the engine, engine.stop() called on the engine, and the stop at
\* the end of ForexArbitrageBot.start()
BotNext ==
    \/ BotStart
    \/ \E signum \in Signums : SignalHandler(signum)
    \/ Stop
    \/ \E t \in Tasks : TaskStep(t)
    \/ BotStop

BotSpec == Init /\ [][BotNext]_vars

\* the event loop runs every task that can take a step, the awaited stop
\* among them
BotFairSpec ==
    BotSpec /\ (\A t \in Tasks : WF_vars(TaskStep(t))) /\ WF_vars(BotStop)

\* position sizing alone: calculate_position_size on any available balance
SizeNext ==
    \/ GetAvailableBalance
    \/ CallCalculatePositionSize

SizeSpec == Init /\ [][SizeNext]_vars

\* the price monitor task next to start() and stop(); the venues answer when
\* they answer
MonNext ==
    \/ Start
    \/ Stop
    \/ Monitor
    \/ VenueFetch

MonSpec == Init /\ [][MonNext]_vars

\* every step of the monitor task is eventually taken; nothing makes a venue
\* answer
MonFairSpec == MonSpec /\ WF_vars(Monitor)

\* the detector alone: find_arbitrage_opportunities on any tickers
DetNext == FindCall

DetSpec == Init /\ [][DetNext]_vars

\* -------------------------------------------------------------------------
\* The per-trade state of the execution protocol, read off the position of
\* _execute_arbitrage and the statement it ended at
\* -------------------------------------------------------------------------
TradeState ==
    CASE cur.outcome = "none" -> "NONE"
      [] cur.outcome = "completed" -> "SETTLED"
      [] cur.outcome \in {"buy_place_failed", "buy_not_filled",
                          "sell_place_failed", "sell_not_filled", "error"}
            -> "FAILED"
      [] cur.outcome = "running" /\ pc = "place_buy" -> "INIT"
      [] cur.outcome = "running" /\ pc \in {"wait_buy", "poll_buy", "cancel_buy"}
            -> "BUY_PLACED"
      [] cur.outcome = "running" /\ pc = "place_sell" -> "BUY_FILLED"
      [] cur.outcome = "running" /\ pc \in {"wait_sell", "poll_sell", "cancel_sell"}
            -> "SELL_PLACED"
      [] cur.outcome = "running" /\ pc = "settle" -> "SELL_FILLED"
      [] cur.outcome = "running" /\ pc = "notify" -> "SETTLED"

Terminal == TradeState \in {"SETTLED", "FAILED", "CANCELLED"} /\ cur.outcome # "running"

\* _execute_arbitrage is not running: the scan loop is between two calls
NotExecuting == pc \in {"idle", "loop", "iter", "stopped", "execute"}

\* the trade ids in the risk manager's active-trade collection
ActiveTradeIds == {rm_active_trades[i].trade_id : i \in DOMAIN rm_active_trades}

\* the venue calls of the current execution with a given name and side
Called(fn, side) == \E i \in DOMAIN cur.calls : cur.calls[i] = Call(fn, side)

\* -------------------------------------------------------------------------
\* Claims
\* -------------------------------------------------------------------------

\* C1: the active-trade collection never holds more than max_concurrent_trades
\* entries, whatever RiskManager operations are called.
C1_ActiveWithinLimit ==
    Len(rm_active_trades) <= MaxConcurrentTrades

\* C2: a can_execute_trade call made with max_concurrent_trades or more active
\* trades returned false, for every opportunity and every other risk field.
C2_RejectsAtLimit ==
    (ret.op = "can_execute_trade" /\ Len(rm_active_trades) >= MaxConcurrentTrades)
        => ret.result = FALSE

\* C2 witness: an opportunity that passes every other check is refused at the
\* limit.
C2_Witness ==
    /\ ret.op = "can_execute_trade"
    /\ Len(rm_active_trades) = MaxConcurrentTrades
    /\ ret.pct = Frac(2, 10)
    /\ daily_loss < MaxDailyLoss
    /\ FracLT(max_drawdown, DrawdownLimit)
    /\ ret.result = FALSE

\* C3: never have two opportunities passed the concurrency-limit check while
\* neither has registered its trade id.
C3_CheckAndRegisterSerialized ==
    unregistered <= 1

\* C4: the trade id is in the active-trade set from before the buy order is
\* placed until the trade is terminal, and not afterwards.
C4_RegisteredWhileInFlight ==
    /\ (cur.outcome = "running" /\ cur.buy_order = "order")
          => cur.trade_id \in ActiveTradeIds
    /\ Terminal => cur.trade_id \notin ActiveTradeIds

\* C5: when the buy order was placed and the status read after the wait is not
\* filled, no sell order is placed; and once the execution has returned the
\* buy order was sent a cancel, the trade is FAILED and its id is not active.
C5_BuyTimeout ==
    (cur.buy_order = "order" /\ cur.buy_status = "other") =>
        /\ cur.sell_order = "unset"
        /\ orders.sell.status = "none"
        /\ ~Called("place_order", "sell")
        /\ pc = "cancel_buy" \/ NotExecuting
        /\ NotExecuting =>
              /\ Called("cancel_order", "buy")
              /\ cur.outcome = "buy_not_filled"
              /\ TradeState = "FAILED"
              /\ cur.trade_id \notin ActiveTradeIds

\* C5 witness: a buy-leg timeout after which the execution returned.
C5_Witness ==
    /\ cur.buy_order = "order"
    /\ cur.buy_status = "other"
    /\ cur.outcome = "buy_not_filled"
    /\ orders.buy.status = "canceled"

\* C6: when place_order gives no buy order the execution has returned, the
\* trade is FAILED, no order is at either venue, no venue call followed and
\* the trade id is not active.
C6_BuyPlacementFailure ==
    cur.buy_order = "None" =>
        /\ NotExecuting
        /\ cur.outcome = "buy_place_failed"
        /\ TradeState = "FAILED"
        /\ orders.buy.status = "none"
        /\ orders.sell.status = "none"
        /\ cur.calls = <<>>
        /\ cur.trade_id \notin ActiveTradeIds

\* C6 witness: a buy placement failed.
C6_Witness ==
    /\ cur.buy_order = "None"
    /\ cur.outcome = "buy_place_failed"
    /\ nexec >= 1

\* the buy leg was observed filled and the sell leg failed to be placed or was
\* not filled by its deadline
NakedPosition ==
    /\ cur.buy_status = "closed"
    /\ cur.sell_order = "None" \/ cur.sell_status = "other"

\* C7: a naked position ends in an outcome that is not an ordinary FAILED and
\* a notification was sent before the execution returned.
C7_NakedPositionEscalated ==
    (NakedPosition /\ cur.outcome # "running") =>
        /\ cur.notified >= 1
        /\ TradeState # "FAILED"

\* the place of a state on the path INIT -> ... -> SETTLED
Rank(state) ==
    CASE state = "NONE" -> 0
      [] state = "INIT" -> 1
      [] state = "BUY_PLACED" -> 2
      [] state = "BUY_FILLED" -> 3
      [] state = "SELL_PLACED" -> 4
      [] state = "SELL_FILLED" -> 5
      [] state = "SETTLED" -> 6
      [] state \in {"FAILED", "CANCELLED"} -> 7

\* C8: within one trade the state stays or moves one step forward, or enters
\* FAILED/CANCELLED from a non-terminal state; a terminal trade changes no
\* more and makes no venue call; a sell order exists only after the buy order
\* was observed filled.
C8_StateMachine ==
    [][ /\ (nexec' = nexec /\ ~Terminal) =>
              \/ Rank(TradeState') \in {Rank(TradeState), Rank(TradeState) + 1}
              \/ TradeState' \in {"FAILED", "CANCELLED"}
        /\ (nexec' = nexec /\ TradeState \in {"SETTLED", "FAILED", "CANCELLED"})
              => (TradeState' = TradeState /\ cur'.calls = cur.calls)
        /\ (nexec' = nexec /\ Terminal) => cur' = cur
        /\ (orders'.sell.status # "none" \/ cur'.sell_order # "unset")
              => cur'.buy_status = "closed"
      ]_vars

\* C8 witness: a trade went through every state to SETTLED.
C8_Witness ==
    /\ cur.outcome = "completed"
    /\ TradeState = "SETTLED"
    /\ Called("place_order", "sell")

\* C9: every execution that has started eventually is terminal.
C9_ExecutionTerminates ==
    (cur.outcome = "running") ~> Terminal

\* C9 witness: a leg wait expired, the cancel did not go through (the order is
\* still open at the venue) and the trade is terminal all the same.
C9_Witness ==
    /\ Terminal
    /\ cur.outcome = "sell_not_filled"
    /\ orders.sell.status # "canceled"

\* a trade that ended on a placement failure or a leg timeout
EndedWithoutBothLegs ==
    cur.outcome \in {"buy_place_failed", "buy_not_filled",
                     "sell_place_failed", "sell_not_filled"}

\* C10: the net profit is computed, and total_profit or total_loss changes,
\* only in a step of a trade whose two orders were observed filled; a trade
\* that ended on a placement failure or a leg timeout has no net profit.
C10_ProfitOnlyWhenBothFilled ==
    [][ /\ ( \/ daily_stats'.total_profit # daily_stats.total_profit
             \/ daily_stats'.total_loss # daily_stats.total_loss
             \/ (cur'.net_computed /\ ~cur.net_computed) )
            => /\ cur.buy_status = "closed"
               /\ cur.sell_status = "closed"
               /\ cur'.trade_id = cur.trade_id
               /\ nexec' = nexec
        /\ EndedWithoutBothLegs' => ~cur'.net_computed
      ]_vars

\* C10 witness: a trade with both legs filled added its net profit.
C10_Witness ==
    /\ cur.net_computed
    /\ cur.buy_status = "closed"
    /\ cur.sell_status = "closed"
    /\ daily_stats.total_profit > 0

\* the opportunities of the last find_arbitrage_opportunities call that buy on
\* x and sell on y
DetEmitted(x, y) ==
    {i \in DOMAIN det_out :
        det_out[i].buy_exchange = x /\ det_out[i].sell_exchange = y}

\* C16: for every ordered pair of distinct venues (x, y) the detector returns
\* exactly one opportunity buying at x's ask and selling at y's bid, with the
\* spread percentage (bid - ask) / ask * 100, when x's ask is below y's bid and
\* the spread is at least 0.1 percent, and none otherwise; no opportunity has
\* its buy price at or above its sell price.
C16_DetectorExact ==
    /\ \A x, y \in Venues :
          x # y =>
            LET X == det_tickers[x]
                Y == det_tickers[y]
            IN  IF /\ X # NoTicker
                   /\ Y # NoTicker
                   /\ X.ask < Y.bid
                   /\ (Y.bid - X.ask) * 1000 >= X.ask
                THEN /\ Cardinality(DetEmitted(x, y)) = 1
                     /\ \A i \in DetEmitted(x, y) :
                           /\ det_out[i].buy_price = X.ask
                           /\ det_out[i].sell_price = Y.bid
                           /\ det_out[i].profit_percentage =
                                 Frac((Y.bid - X.ask) * 100, X.ask)
                ELSE DetEmitted(x, y) = {}
    /\ \A i \in DOMAIN det_out : det_out[i].buy_price < det_out[i].sell_price

\* C16 witness: an opportunity exactly at the profit floor was returned, and
\* the other direction of the pair was not.
C16_Witness ==
    /\ Len(det_out) = 1
    /\ det_out[1].buy_exchange = "coinbase"
    /\ det_out[1].profit_percentage = MinProfitPct
    /\ det_tickers["binance"].ask >= det_tickers["coinbase"].bid

\* C17: every returned opportunity carries the minimum of the volumes of the
\* two venues' tickers.
C17_VolumeIsMinimum ==
    \A i \in DOMAIN det_out :
        det_out[i].volume = Min(det_tickers[det_out[i].buy_exchange].volume,
                                det_tickers[det_out[i].sell_exchange].volume)

\* C13: when add_exchange_price fails for a venue's quote, get_all_tickers
\* still returns the map with every venue that answered, and the monitor does
\* not leave its loop over the trading pairs.
C13_QuotePersistFailureTolerated ==
    db_failed_at # "none" =>
        /\ agg_status = "returned"
        /\ \A v \in Answered : tickers[v] = results[v].ticker
        /\ mon_pc # "except"

\* C14: whichever venues' fetches fail, a get_all_tickers call that has ended
\* has returned a map with exactly the venues whose fetch gave a ticker, each
\* with its own ticker: it was not abandoned and no venue's quote is missing.
C14_PartialSnapshot ==
    agg_status \in {"returned", "raised"} =>
        /\ agg_status = "returned"
        /\ \A v \in Venues :
              IF results[v].kind = "ticker"
              THEN tickers[v] = results[v].ticker /\ tickers[v].exchange = v
              ELSE tickers[v] = NoMonTicker

\* C15: a get_all_tickers call that waits for the venues eventually ends,
\* also when a venue never answers.
C15_AggregationDeadline ==
    (mon_pc = "gather") ~> (mon_pc # "gather")

\* the fee calculate_fees may give for one leg: the 0.1 percent of the order
\* value, or 0.0
LegFees(price) == {0, (cur.position_size * price) \div 1000}

\* C11: the step that settles a trade with both legs filled computes the net
\* profit as (sell price - buy price) * size minus the two legs' fees, stores
\* the trade once and counts it once (total_trades + 1 and one of
\* successful_trades, failed_trades + 1); the step after it sends the one
\* notification and changes neither the statistics nor the database.
C11_SettlementExact ==
    [][ /\ (pc = "settle" /\ pc' # "settle") =>
              /\ cur'.net_computed
              /\ \E buy_fees \in LegFees(cur.buy_price),
                    sell_fees \in LegFees(cur.sell_price) :
                    cur'.net_profit =
                        (cur.sell_price - cur.buy_price) * cur.position_size
                            - (buy_fees + sell_fees)
              /\ db_trades' = db_trades + 1
              /\ daily_stats'.total_trades = daily_stats.total_trades + 1
              /\ \/ /\ daily_stats'.successful_trades =
                          daily_stats.successful_trades + 1
                    /\ daily_stats'.failed_trades = daily_stats.failed_trades
                 \/ /\ daily_stats'.successful_trades =
                          daily_stats.successful_trades
                    /\ daily_stats'.failed_trades = daily_stats.failed_trades + 1
              /\ pc' = "notify"
        /\ (pc = "notify" /\ pc' # "notify") =>
              /\ notifications' = notifications + 1
              /\ cur'.notified = 1
              /\ db_trades' = db_trades
              /\ daily_stats' = daily_stats
      ]_vars

\* C12: when both legs are filled and their prices known, the settling step
\* goes on to the statistics and the notification whatever add_trade does:
\* the net profit or loss is added, failed_trades grows only for a trade
\* without profit, and the execution does not end in the except clause.
C12_PersistFailureNotPropagated ==
    [][ (/\ pc = "settle"
         /\ pc' # "settle"
         /\ cur.buy_price # None
         /\ cur.sell_price # None) =>
            /\ pc' = "notify"
            /\ cur'.outcome # "error"
            /\ daily_stats'.total_trades = daily_stats.total_trades + 1
            /\ daily_stats'.failed_trades =
                  daily_stats.failed_trades + (IF cur'.net_profit > 0 THEN 0 ELSE 1)
            /\ daily_stats'.total_profit - daily_stats'.total_loss =
                  daily_stats.total_profit - daily_stats.total_loss
                      + cur'.net_profit
      ]_vars

\* the checks of a can_execute_trade call other than the daily loss, on the
\* fields as the call left them and the percentage it was given
OtherChecksPass ==
    /\ Len(rm_active_trades) < MaxConcurrentTrades
    /\ max_drawdown.num * 10 < max_drawdown.den
    /\ ret.pct.num * 10 >= ret.pct.den
    /\ ret.pct.num <= 5 * ret.pct.den

\* a step that is a can_execute_trade call
RiskCheckStep ==
    /\ ret'.op = "can_execute_trade"
    /\ today' = today
    /\ <<riskVars, ret>>' # <<riskVars, ret>>

\* C18: can_execute_trade returned true exactly when, after the daily reset,
\* the daily loss is below max_daily_loss, fewer than max_concurrent_trades
\* trades are active, the drawdown is below 0.10 and the spread percentage is
\* at least 0.1 and at most 5.
C18_AdmissionExact ==
    ret.op = "can_execute_trade" =>
        (ret.result <=> (daily_loss < MaxDailyLoss /\ OtherChecksPass))

\* C18 witness: an opportunity at the 5 percent ceiling was accepted with one
\* place left under the concurrency limit.
C18_Witness ==
    /\ ret.op = "can_execute_trade"
    /\ ret.result
    /\ ret.pct = MaxSpreadPct
    /\ Len(rm_active_trades) = MaxConcurrentTrades - 1

C20_ResetIffDateDiffers ==
    [][ /\ RiskCheckStep =>
              IF today # last_reset
              THEN daily_loss' = 0 /\ daily_trades' = 0 /\ last_reset' = today
              ELSE UNCHANGED <<daily_loss, daily_trades, last_reset>>
        /\ (today = last_reset /\ ret'.op # "record_trade") =>
              UNCHANGED <<daily_loss, daily_trades>>
      ]_vars

RmActiveIds(list) == {list[i].trade_id : i \in 1 .. Len(list)}
\* the entries of the active list that are not of the trade id
NotOfTrade(t, id) == t.trade_id # id
OtherTrades(list, id) == SelectSeq(list, LAMBDA t : NotOfTrade(t, id))

\* C23: record_trade(trade) with profit > 0 adds the profit to
\* current_balance, sets peak_balance to the maximum of peak_balance and the
\* new current_balance and leaves daily_loss and max_drawdown unchanged;
\* otherwise it adds |profit| to daily_loss, subtracts it from
\* current_balance and, when peak_balance > 0, sets max_drawdown to the
\* maximum of max_drawdown and (peak_balance - current_balance) /
\* peak_balance; in both cases the id of the trade is not in the active list
\* afterwards and the other active trades are kept (a trade_info without a
\* trade id names no active trade, and the list is kept as it is)
C23_RecordTrade ==
    [][daily_trades' = daily_trades + 1 =>
          LET profit == rec_call'.profit
              id == rec_call'.trade_id
          IN  /\ profit > 0 =>
                    /\ current_balance' = current_balance + profit
                    /\ peak_balance' = Max(peak_balance, current_balance')
                    /\ UNCHANGED <<daily_loss, max_drawdown>>
              /\ ~(profit > 0) =>
                    /\ daily_loss' = daily_loss + Abs(profit)
                    /\ current_balance' = current_balance - Abs(profit)
                    /\ peak_balance > 0 =>
                          max_drawdown' =
                              FracMax(max_drawdown,
                                      Frac(peak_balance - current_balance',
                                           peak_balance))
              /\ id # None => id \notin RmActiveIds(rm_active_trades')
              /\ rm_active_trades' = OtherTrades(rm_active_trades, id)
                    \/ (id = None /\ UNCHANGED rm_active_trades)]_vars

\* a loss was recorded with a peak balance, for a trade that was in the
\* active list next to a trade that stays there
C23_Witness ==
    /\ ret.op = "record_trade"
    /\ rec_call.profit < 0
    /\ rec_call.trade_id = 0
    /\ peak_balance > 0
    /\ max_drawdown.num > 0
    /\ RmActiveIds(rm_active_trades) = {1}

\* C24: the outcome of every settled trade is fed back into the risk state
\* before the next opportunity is risk-checked: when the scan loop is at its
\* next opportunity, the net losses of the trades settled so far (the date
\* does not change) are in the daily loss of the risk manager, and its
\* current balance has moved by their net profits and losses
C24_OutcomeFedBack ==
    pc = "iter" =>
        /\ daily_loss = daily_stats.total_loss
        /\ current_balance = daily_stats.total_profit - daily_stats.total_loss

\* the scan loop takes the next opportunity of its list and the risk gate
\* refuses it
GateRejects ==
    /\ pc = "iter"
    /\ opportunities # <<>>
    /\ opportunities' = Tail(opportunities)
    /\ ~CanExecuteTrade(Head(opportunities).profit_percentage)

\* C25: the risk gate is evaluated against the current risk state before
\* every execution attempt: a buy order is placed for an opportunity only if
\* the last risk manager call was can_execute_trade on that opportunity and
\* returned True, the risk state does not change between that call and the
\* placement, and an opportunity the gate refuses causes no order, no trade
\* id and no statistics change
C25_GateBeforeExecution ==
    [][/\ (pc = "place_buy" /\ orders'.buy # orders.buy) =>
             /\ ret.op = "can_execute_trade"
             /\ ret.result
             /\ ret.pct = opportunity.profit_percentage
       /\ pc \in {"execute", "place_buy"} => UNCHANGED <<riskVars, ret>>
       /\ GateRejects => UNCHANGED <<pc, orders, cur, nexec, daily_stats,
                                     opportunity>>]_vars

\* a buy order is open for an opportunity the gate let through
C25_Witness ==
    /\ pc = "wait_buy"
    /\ orders.buy.status = "open"
    /\ ret.op = "can_execute_trade"
    /\ ret.result
    /\ ret.pct = opportunity.profit_percentage

\* C26: each periodic task is resilient: when a cycle of the price monitor,
\* the opportunity scan, the active-trade monitor or the stats rollup has
\* raised, then, as long as the engine is running, that task starts another
\* cycle, and the step at which the cycle raised leaves the engine running
\* and every other task where it was
C26_TasksResilient ==
    /\ \A t \in Tasks :
          (task_pc[t] = "except" /\ running) ~> (task_pc[t] = "cycle" \/ ~running)
    /\ [][\A t \in Tasks :
            task_pc[t] = "cycle" /\ task_pc'[t] = "except" =>
                /\ running' = running
                /\ \A u \in Tasks \ {t} : task_pc'[u] = task_pc[u]]_vars

\* a cycle of the stats rollup has raised while another task is in a cycle,
\* and the engine is running
C26_Witness ==
    /\ running
    /\ task_pc["stats"] = "except"
    /\ task_pc["prices"] = "cycle"

\* C27: after stop() has set the engine to not running, no new trade
\* execution is started and no new buy order is placed, while a trade
\* already in flight goes on until it is terminal
C27_StopStartsNoExecution ==
    /\ [][~running =>
            /\ ~(pc = "execute" /\ pc' # "execute")
            /\ pc = "place_buy" => orders'.buy = orders.buy]_vars
    /\ (~running /\ cur.outcome = "running") ~> Terminal

\* C28: any read of the performance statistics returns derived values that
\* agree with the counters returned in the same read: net_profit =
\* total_profit - total_loss, win_rate = successful_trades / total_trades *
\* 100 when total_trades > 0, average_profit = total_profit /
\* successful_trades when successful_trades > 0
C28_SummaryConsistent ==
    summary.taken =>
        LET c == summary.daily_stats
            d == summary.derived
        IN  /\ d.net_profit = Key(Frac(c.total_profit - c.total_loss, 1))
            /\ c.total_trades > 0 =>
                  d.win_rate = Key(Frac(c.successful_trades * 100, c.total_trades))
            /\ c.successful_trades > 0 =>
                  d.average_profit = Key(Frac(c.total_profit, c.successful_trades))

\* the three most recent completed trades all had a negative profit
LosingStreak(log) ==
    /\ Len(log) >= 3
    /\ \A i \in 1 .. 3 : LastThree(log)[i] < 0

\* C29: the advisory gate rejects on a losing streak: a
\* should_skip_opportunity call made when the three most recent completed
\* trades all had a negative profit returns True, for any opportunity
C29_SkipsOnLosingStreak ==
    (skip_ret.called /\ LosingStreak(skip_ret.log)) => skip_ret.result

\* C30: the advisory gate is applied to executions: every opportunity for
\* which the engine has placed a buy order has a risk/reward ratio,
\* profit_percentage / 2, of at least 1.5
C30_RiskRewardFloor ==
    (pc = "wait_buy" /\ orders.buy.status = "open") =>
        FracGE(CalculateRiskRewardRatio(opportunity.profit_percentage),
               MinRiskReward)

\* C31: a buy-leg timeout leaves no exposure: whenever a trade has ended
\* FAILED because the buy order was not reported filled at the deadline, the
\* buy order is not filled at the venue, whether the venue fills it between
\* the status poll and the cancel request or the cancel request fails
C31_BuyTimeoutNoExposure ==
    (cur.outcome = "buy_not_filled" /\ TradeState = "FAILED") =>
        orders.buy.status # "closed"

\* the execution placed an order on this side and did not see it filled
PlacedNotSeenFilled(side) ==
    IF side = "buy"
    THEN cur.buy_order = "order" /\ cur.buy_status # "closed"
    ELSE cur.sell_order = "order" /\ cur.sell_status # "closed"

C33_CountsAddUp ==
    daily_stats.total_trades =
        daily_stats.successful_trades + daily_stats.failed_trades

\* C34: in every state reached by record_trade and update_balance calls
\* peak_balance >= current_balance, and no step lowers peak_balance
C34_PeakAboveBalance ==
    /\ [](peak_balance >= current_balance)
    /\ [][peak_balance' >= peak_balance]_vars

\* the balance was set below a peak reached by a recorded profit
C34_Witness ==
    /\ ret.op = "update_balance"
    /\ peak_balance > 100000
    /\ current_balance = 100000

\* C35: the drawdown breach latches: no operation lowers max_drawdown
\* (profitable trades, update_balance and the daily reset included), and a
\* can_execute_trade call made with max_drawdown >= 0.10 returned False
C35_DrawdownLatches ==
    /\ [][FracGE(max_drawdown', max_drawdown)]_vars
    /\ []((ret.op = "can_execute_trade" /\ FracGE(max_drawdown, DrawdownLimit))
            => ~ret.result)

\* a check made after the daily reset, with no daily loss, few active trades
\* and a spread within the band, was refused for the drawdown of an earlier
\* day
C35_Witness ==
    /\ ret.op = "can_execute_trade"
    /\ ~ret.result
    /\ FracGE(max_drawdown, DrawdownLimit)
    /\ last_reset > 0
    /\ daily_loss = 0
    /\ Len(rm_active_trades) < MaxConcurrentTrades
    /\ ret.pct = Frac(2, 10)

\* C36: a loss is charged to the calendar day on which it is recorded: when
\* record_trade recorded a loss L on a date on which no risk check had run
\* yet, then after the first can_execute_trade of that date the daily loss is
\* at least L
C36_LossChargedToItsDay ==
    [][(/\ last_reset < today
        /\ last_reset' = today
        /\ rec_call.day = today
        /\ rec_call.profit < 0) => daily_loss' >= -rec_call.profit]_vars

\* C37: trade ids are unique: an execution the engine starts does not get
\* the trade id of the execution before it (the ids are read off one clock,
\* so two executions with the same id follow each other), also when both
\* start within the same millisecond
C37_TradeIdsUnique ==
    [][(pc = "execute" /\ pc' = "place_buy" /\ cur.trade_id # None) =>
          cur'.trade_id # cur.trade_id]_vars

\* the scan loops that have not ended, and those awaiting an execution
LiveLoops == {i \in DOMAIN scan_loops : scan_loops[i] # "done"}
ExecutingLoops == {i \in DOMAIN scan_loops : scan_loops[i] = "execution"}

\* C38: at most one opportunity-scan loop is active at any time, and so at
\* most one trade execution is in flight, under any interleaving of start and
\* stop requests
C38_OneScanLoop ==
    /\ Cardinality(LiveLoops) <= 1
    /\ Cardinality(ExecutingLoops) <= 1

\* C39: a shutdown signal stops the engine: after the bot's signal handler
\* has run for SIGINT or SIGTERM while the engine is running, the engine's
\* running flag eventually becomes false and all four periodic tasks
\* eventually leave their loops
C39_SignalStopsEngine ==
    \A signum \in Signums :
        (signum \in signals /\ running)
            ~> (~running /\ \A t \in Tasks : task_pc[t] = "done")

\* C40: stale-quote guard: the engine starts a trade for an opportunity only
\* if the revalidation done just before it read a non-zero balance at both
\* venues and a quote from both venues, with the buy venue's current ask at
\* most buy_price * 1.0005 and the sell venue's current bid at least
\* sell_price * 0.9995; this holds for every opportunity of a scan cycle,
\* those checked after an earlier trade of the cycle ended included
C40_StaleQuoteGuard ==
    pc = "execute" =>
        /\ reval.called
        /\ reval.buy_balance \notin {None, 0}
        /\ reval.sell_balance \notin {None, 0}
        /\ reval.current_buy_price # None
        /\ reval.current_sell_price # None
        /\ reval.current_buy_price * 10000 <= opportunity.buy_price * 10005
        /\ reval.current_sell_price * 10000 >= opportunity.sell_price * 9995

\* a second opportunity of the cycle passed its revalidation after the
\* first trade of the cycle had ended, with a current bid the slippage bound
\* allows although it is not the bid the opportunity was found at
C40_Witness ==
    /\ pc = "execute"
    /\ nexec = 1
    /\ cur.outcome \notin {"none", "running"}
    /\ reval.called
    /\ reval.current_sell_price # opportunity.sell_price

====
